---- MODULE Spec2Model ----
(***************************************************************************)
(* Model of Source.cpp: main() sequencing calls into GLFW and OpenGL, with *)
(* the two callbacks framebuffer_size_callback and processInput.           *)
(*                                                                         *)
(* pc is the line number of Source.cpp whose statement executes next;      *)
(* pc = 0 means main has returned.  The libraries are modelled by the part *)
(* of their documented contract the program depends on: object tables,     *)
(* binding points, the viewport, the window's close flag and key state.    *)
(* What the code does not decide (whether glfwInit, glfwCreateWindow,      *)
(* gladLoadGLLoader, the two compiles and the link succeed; which events   *)
(* the user produces) is a nondeterministic input.                         *)
(***************************************************************************)
EXTENDS Integers, Sequences, FiniteSets, TLC

\* ------------------------------------------------------------------ bounds
\* Resize events carry widths and heights in 0..MaxDim.
MaxDim == 2
\* At most MaxEvents resize events are dispatched by one glfwPollEvents.
MaxEvents == 2

VARIABLES
    pc,        \* line of Source.cpp executed next; 0 after main returned
    ret,       \* main's return value once pc = 0
    out,       \* what was written to std::cout, one entry per message
    locals,    \* main's local variables
    glfw,      \* state of the windowing library
    gl,        \* state of the OpenGL context (driver state machine)
    loaded,    \* glad has loaded the GL function pointers
    lastCall,  \* library calls issued by the last step, callbacks included
    trace,     \* statements main executed since it last tested the loop condition
    hist       \* history: creations/destructions per handle, loop entered

vars == <<pc, ret, out, locals, glfw, gl, loaded, lastCall, trace, hist>>

Kinds == {"vertexShader", "fragmentShader", "shaderProgram", "VBO", "VAO", "window"}

Dims == 0..MaxDim
ResizeEvents == Dims \X Dims

\* Sequences over S of length at most n.
SeqsUpTo(S, n) == UNION {[1..k -> S] : k \in 0..n}

EmptyTable == [n \in {} |-> 0]

\* GL hands out the smallest unused positive name.
NewName(used) == CHOOSE n \in 1..(Cardinality(used) + 1) : n \notin used

\* The GL calls the program makes (through function pointers glad loads).
IsGLCall(c) == c \notin {"glfwInit", "glfwWindowHint", "glfwCreateWindow", "glfwTerminate",
                         "glfwMakeContextCurrent", "glfwSetFramebufferSizeCallback",
                         "gladLoadGLLoader", "glfwWindowShouldClose", "glfwGetKey",
                         "glfwSetWindowShouldClose", "glfwSwapBuffers", "glfwPollEvents"}

\* A statement of main that issues the library calls `calls`.
Stmt(name, calls) ==
    /\ trace' = Append(trace, name)
    /\ lastCall' = calls

\* A GL call sets the error flag if none is pending (the flag is sticky).
RaiseError(g, e) == IF g.error = "GL_NO_ERROR" THEN [g EXCEPT !.error = e] ELSE g

Init ==
    /\ pc = 105
    /\ ret = 0
    /\ out = <<>>
    \* `int success;` (line 155) is not initialised: its value is indeterminate.
    /\ \E s \in {0, 1} :
         locals = [window |-> 0, vertexShader |-> 0, fragmentShader |-> 0,
                   shaderProgram |-> 0, VBO |-> 0, VAO |-> 0, success |-> s]
    /\ glfw = [initialized |-> FALSE, terminated |-> FALSE, hints |-> {},
               window |-> FALSE, current |-> FALSE, callback |-> FALSE,
               shouldClose |-> FALSE, escape |-> "RELEASE"]
    /\ gl = [shaders |-> EmptyTable, programs |-> EmptyTable,
             buffers |-> EmptyTable, vaos |-> EmptyTable,
             currentProgram |-> 0, arrayBuffer |-> 0, vertexArray |-> 0,
             viewport |-> <<0, 0, 0, 0>>, clearColor |-> <<0, 0, 0, 0>>,
             colorBuffer |-> "undefined", front |-> "undefined", error |-> "GL_NO_ERROR"]
    /\ loaded = FALSE
    /\ lastCall = <<>>
    /\ trace = <<>>
    /\ hist = [created |-> [k \in Kinds |-> 0], destroyed |-> [k \in Kinds |-> 0],
               answer |-> [k \in {"vertexShader", "fragmentShader", "shaderProgram"} |-> "none"],
               looped |-> FALSE, lastResize |-> <<>>]

\* ------------------------------------------------------- startup, 105..144

\* line 105: the result of glfwInit is not checked.
glfwInit ==
    /\ pc = 105
    /\ \E ok \in BOOLEAN : glfw' = [glfw EXCEPT !.initialized = ok]
    /\ pc' = 111
    /\ Stmt("glfwInit", <<"glfwInit">>)
    /\ UNCHANGED <<ret, out, locals, gl, loaded, hist>>

\* lines 111-113: one hint per line; a hint set before a failed glfwInit is lost.
glfwWindowHint(line, hint, value, next) ==
    /\ pc = line
    /\ glfw' = IF glfw.initialized
               THEN [glfw EXCEPT !.hints = @ \cup {<<hint, value>>}]
               ELSE glfw
    /\ pc' = next
    /\ Stmt("glfwWindowHint", <<"glfwWindowHint">>)
    /\ UNCHANGED <<ret, out, locals, gl, loaded, hist>>

HintMajor == glfwWindowHint(111, "GLFW_CONTEXT_VERSION_MAJOR", 3, 112)
HintMinor == glfwWindowHint(112, "GLFW_CONTEXT_VERSION_MINOR", 3, 113)
HintProfile == glfwWindowHint(113, "GLFW_OPENGL_PROFILE", 1, 123)

\* line 123: NULL (0) when the library is not initialised or creation fails.
glfwCreateWindow ==
    /\ pc = 123
    /\ \E ok \in (IF glfw.initialized THEN BOOLEAN ELSE {FALSE}) :
         /\ locals' = [locals EXCEPT !.window = IF ok THEN 1 ELSE 0]
         /\ glfw' = [glfw EXCEPT !.window = ok]
         /\ hist' = [hist EXCEPT !.created["window"] = @ + (IF ok THEN 1 ELSE 0)]
    /\ pc' = 126
    /\ Stmt("glfwCreateWindow", <<"glfwCreateWindow">>)
    /\ UNCHANGED <<ret, out, gl, loaded>>

\* lines 126-128: if (window == NULL) print the diagnostic.
WindowNullCheck ==
    /\ pc = 126
    /\ IF locals.window = 0
       THEN /\ out' = Append(out, "Failed to create GLFW window")
            /\ pc' = 129
       ELSE /\ out' = out
            /\ pc' = 132
    /\ UNCHANGED <<ret, locals, glfw, gl, loaded, lastCall, trace, hist>>

\* glfwTerminate destroys every window and context that still exists.
Terminated(w) ==
    [w EXCEPT !.initialized = FALSE, !.terminated = TRUE, !.window = FALSE,
              !.current = FALSE, !.callback = FALSE]

\* lines 129-130: glfwTerminate(); return -1;
WindowFailReturn ==
    /\ pc = 129
    /\ glfw' = Terminated(glfw)
    /\ hist' = [hist EXCEPT !.destroyed["window"] = @ + (IF glfw.window THEN 1 ELSE 0)]
    /\ pc' = 0
    /\ ret' = -1
    /\ Stmt("glfwTerminate", <<"glfwTerminate">>)
    /\ UNCHANGED <<out, locals, gl, loaded>>

\* line 132: the context of the window becomes current; a fresh context's
\* viewport is the size of the window it is first attached to (800 x 600).
glfwMakeContextCurrent ==
    /\ pc = 132
    /\ glfw' = [glfw EXCEPT !.current = TRUE]
    /\ gl' = [gl EXCEPT !.viewport = <<0, 0, 800, 600>>]
    /\ pc' = 136
    /\ Stmt("glfwMakeContextCurrent", <<"glfwMakeContextCurrent">>)
    /\ UNCHANGED <<ret, out, locals, loaded, hist>>

\* line 136
glfwSetFramebufferSizeCallback ==
    /\ pc = 136
    /\ glfw' = [glfw EXCEPT !.callback = TRUE]
    /\ pc' = 140
    /\ Stmt("glfwSetFramebufferSizeCallback", <<"glfwSetFramebufferSizeCallback">>)
    /\ UNCHANGED <<ret, out, locals, gl, loaded, hist>>

\* Mutant of gladLoadGLLoader: the loader's result is not checked.
gladLoadGLLoader_Unchecked ==
    /\ pc = 140
    /\ \E ok \in BOOLEAN : loaded' = ok
    /\ pc' = 150
    /\ Stmt("gladLoadGLLoader", <<"gladLoadGLLoader">>)
    /\ UNCHANGED <<ret, out, locals, glfw, gl, hist>>

\* line 140: the loader succeeds or fails; on failure the branch at 141 is taken.
gladLoadGLLoader ==
    /\ pc = 140
    /\ \E ok \in BOOLEAN :
         /\ loaded' = ok
         /\ pc' = IF ok THEN 150 ELSE 142
    /\ Stmt("gladLoadGLLoader", <<"gladLoadGLLoader">>)
    /\ UNCHANGED <<ret, out, locals, glfw, gl, hist>>

\* Mutant of GladFailReturn: the diagnostic is printed but `return -1` is missing.
GladFailReturn_NoReturn ==
    /\ pc = 142
    /\ out' = Append(out, "Failed to initialize GLAD")
    /\ pc' = 150
    /\ UNCHANGED <<ret, locals, glfw, gl, loaded, lastCall, trace, hist>>

\* lines 142-143: print, return -1 (glfwTerminate is not called on this path).
GladFailReturn ==
    /\ pc = 142
    /\ out' = Append(out, "Failed to initialize GLAD")
    /\ pc' = 0
    /\ ret' = -1
    /\ UNCHANGED <<locals, glfw, gl, loaded, lastCall, trace, hist>>

Startup ==
    \/ glfwInit \/ HintMajor \/ HintMinor \/ HintProfile
    \/ glfwCreateWindow \/ WindowNullCheck \/ WindowFailReturn
    \/ glfwMakeContextCurrent \/ glfwSetFramebufferSizeCallback
    \/ gladLoadGLLoader \/ GladFailReturn

\* ------------------------------------------- OpenGL: shaders and programs
\* Each operator is one GL command as a function of the context state g.
\* A command given a name that is no object of the right type sets
\* GL_INVALID_VALUE and changes nothing else.

ShaderNames(g) == DOMAIN g.shaders \cup DOMAIN g.programs

\* glCreateShader(type): a new shader object under a fresh name.
CreateShader(g, type) ==
    LET n == NewName(ShaderNames(g))
    IN  [g EXCEPT !.shaders = @ @@ (n :> [type |-> type, source |-> "", compiled |-> FALSE,
                                         status |-> FALSE, deleteFlag |-> FALSE])]

\* glShaderSource(s, 1, &src, NULL)
ShaderSource(g, s, src) ==
    IF s \in DOMAIN g.shaders
    THEN [g EXCEPT !.shaders[s].source = src]
    ELSE RaiseError(g, "GL_INVALID_VALUE")

\* glCompileShader(s): the compiler's verdict ok becomes GL_COMPILE_STATUS.
CompileShader(g, s, ok) ==
    IF s \in DOMAIN g.shaders
    THEN [g EXCEPT !.shaders[s].compiled = TRUE, !.shaders[s].status = ok]
    ELSE RaiseError(g, "GL_INVALID_VALUE")

\* glCreateProgram()
CreateProgram(g) ==
    LET n == NewName(ShaderNames(g))
    IN  [g EXCEPT !.programs = @ @@ (n :> [attached |-> {}, linked |-> FALSE,
                                          status |-> FALSE, deleteFlag |-> FALSE])]

\* glAttachShader(p, s)
AttachShader(g, p, s) ==
    IF p \in DOMAIN g.programs /\ s \in DOMAIN g.shaders
    THEN IF s \in g.programs[p].attached
         THEN RaiseError(g, "GL_INVALID_OPERATION")
         ELSE [g EXCEPT !.programs[p].attached = @ \cup {s}]
    ELSE RaiseError(g, "GL_INVALID_VALUE")

\* A link can succeed only if a vertex shader is attached and every attached
\* shader compiled successfully; it may still fail then.
Linkable(g, p) ==
    /\ p \in DOMAIN g.programs
    /\ \E s \in g.programs[p].attached : g.shaders[s].type = "GL_VERTEX_SHADER"
    /\ \A s \in g.programs[p].attached : g.shaders[s].compiled /\ g.shaders[s].status

\* glLinkProgram(p): the linker's verdict ok becomes GL_LINK_STATUS.
LinkProgram(g, p, ok) ==
    IF p \in DOMAIN g.programs
    THEN [g EXCEPT !.programs[p].linked = TRUE, !.programs[p].status = ok]
    ELSE RaiseError(g, "GL_INVALID_VALUE")

\* glUseProgram(p): a program that is not successfully linked cannot be made
\* current: GL_INVALID_OPERATION, and the current program is unchanged.
UseProgram(g, p) ==
    IF p = 0 THEN [g EXCEPT !.currentProgram = 0]
    ELSE IF p \notin DOMAIN g.programs THEN RaiseError(g, "GL_INVALID_VALUE")
    ELSE IF ~(g.programs[p].linked /\ g.programs[p].status)
         THEN RaiseError(g, "GL_INVALID_OPERATION")
    ELSE [g EXCEPT !.currentProgram = p]

Remove(table, n) == [m \in DOMAIN table \ {n} |-> table[m]]

\* glDeleteShader(s): a shader attached to a program is only flagged for
\* deletion; it is deleted once it is attached to no program.
DeleteShader(g, s) ==
    IF s = 0 THEN g
    ELSE IF s \notin DOMAIN g.shaders THEN RaiseError(g, "GL_INVALID_VALUE")
    ELSE IF \E p \in DOMAIN g.programs : s \in g.programs[p].attached
         THEN [g EXCEPT !.shaders[s].deleteFlag = TRUE]
    ELSE [g EXCEPT !.shaders = Remove(@, s)]

\* glDeleteProgram(p): the current program is only flagged for deletion;
\* otherwise it is deleted, its shaders are detached and those flagged for
\* deletion are deleted with it.
DeleteProgram(g, p) ==
    IF p = 0 THEN g
    ELSE IF p \notin DOMAIN g.programs THEN RaiseError(g, "GL_INVALID_VALUE")
    ELSE IF g.currentProgram = p
         THEN [g EXCEPT !.programs[p].deleteFlag = TRUE]
    ELSE LET others == UNION {g.programs[q].attached : q \in DOMAIN g.programs \ {p}}
             gone == {s \in g.programs[p].attached :
                         g.shaders[s].deleteFlag /\ s \notin others}
         IN  [g EXCEPT !.programs = Remove(@, p),
                       !.shaders = [s \in DOMAIN @ \ gone |-> @[s]]]

\* -------------------------------------------- main: shaders, lines 150..202

\* lines 150, 168: unsigned int <var> = glCreateShader(<type>);
glCreateShader(line, var, type, next) ==
    /\ pc = line
    /\ gl' = CreateShader(gl, type)
    /\ locals' = [locals EXCEPT ![var] = NewName(ShaderNames(gl))]
    /\ hist' = [hist EXCEPT !.created[var] = @ + 1]
    /\ pc' = next
    /\ Stmt("glCreateShader", <<"glCreateShader">>)
    /\ UNCHANGED <<ret, out, glfw, loaded>>

\* lines 151, 169
glShaderSource(line, var, src, next) ==
    /\ pc = line
    /\ gl' = ShaderSource(gl, locals[var], src)
    /\ pc' = next
    /\ Stmt("glShaderSource", <<"glShaderSource">>)
    /\ UNCHANGED <<ret, out, locals, glfw, loaded, hist>>

\* lines 152, 170: the driver's compiler accepts or rejects the source.
glCompileShader(line, var, next) ==
    /\ pc = line
    /\ \E ok \in BOOLEAN :
         /\ gl' = CompileShader(gl, locals[var], ok)
         /\ hist' = [hist EXCEPT !.answer[var] = IF ok THEN "ok" ELSE "failed"]
    /\ pc' = next
    /\ Stmt("glCompileShader", <<"glCompileShader">>)
    /\ UNCHANGED <<ret, out, locals, glfw, loaded>>

\* lines 157, 173: glGetShaderiv(<var>, GL_COMPILE_STATUS, &success);
glGetShaderiv(line, var, next) ==
    /\ pc = line
    /\ IF locals[var] \in DOMAIN gl.shaders
       THEN /\ locals' = [locals EXCEPT
                             !.success = IF gl.shaders[locals[var]].status THEN 1 ELSE 0]
            /\ gl' = gl
       ELSE /\ locals' = locals
            /\ gl' = RaiseError(gl, "GL_INVALID_VALUE")
    /\ pc' = next
    /\ Stmt("glGetShaderiv", <<"glGetShaderiv">>)
    /\ UNCHANGED <<ret, out, glfw, loaded, hist>>

\* lines 158-162, 174-178, 193-196: if (!success) { get the info log; print }
CheckSuccess(line, getLog, msg, next) ==
    /\ pc = line
    /\ IF locals.success = 0
       THEN /\ out' = Append(out, msg)
            /\ Stmt(getLog, <<getLog>>)
       ELSE UNCHANGED <<out, lastCall, trace>>
    /\ pc' = next
    /\ UNCHANGED <<ret, locals, glfw, gl, loaded, hist>>

CreateVertexShader == glCreateShader(150, "vertexShader", "GL_VERTEX_SHADER", 151)
VertexShaderSource == glShaderSource(151, "vertexShader", "vertexShaderSource", 152)
CompileVertexShader == glCompileShader(152, "vertexShader", 157)
GetVertexStatus == glGetShaderiv(157, "vertexShader", 158)
CheckVertexStatus ==
    CheckSuccess(158, "glGetShaderInfoLog", "ERROR::SHADER::VERTEX::COMPILATION_FAILED", 168)

CreateFragmentShader == glCreateShader(168, "fragmentShader", "GL_FRAGMENT_SHADER", 169)
FragmentShaderSource == glShaderSource(169, "fragmentShader", "fragmentShaderSource", 170)
CompileFragmentShader == glCompileShader(170, "fragmentShader", 173)
\* Mutant of GetFragmentStatus: the status query is missing, success is stale.
GetFragmentStatus_Stale ==
    /\ pc = 173
    /\ pc' = 174
    /\ UNCHANGED <<ret, out, locals, glfw, gl, loaded, lastCall, trace, hist>>

GetFragmentStatus == glGetShaderiv(173, "fragmentShader", 174)
CheckFragmentStatus ==
    CheckSuccess(174, "glGetShaderInfoLog", "ERROR::SHADER::FRAGMENT::COMPILATION_FAILED", 186)

\* line 186
glCreateProgram ==
    /\ pc = 186
    /\ gl' = CreateProgram(gl)
    /\ locals' = [locals EXCEPT !.shaderProgram = NewName(ShaderNames(gl))]
    /\ hist' = [hist EXCEPT !.created["shaderProgram"] = @ + 1]
    /\ pc' = 187
    /\ Stmt("glCreateProgram", <<"glCreateProgram">>)
    /\ UNCHANGED <<ret, out, glfw, loaded>>

\* lines 187, 188
glAttachShader(line, var, next) ==
    /\ pc = line
    /\ gl' = AttachShader(gl, locals.shaderProgram, locals[var])
    /\ pc' = next
    /\ Stmt("glAttachShader", <<"glAttachShader">>)
    /\ UNCHANGED <<ret, out, locals, glfw, loaded, hist>>

AttachVertexShader == glAttachShader(187, "vertexShader", 188)
AttachFragmentShader == glAttachShader(188, "fragmentShader", 189)

\* line 189
glLinkProgram ==
    /\ pc = 189
    /\ \E ok \in (IF Linkable(gl, locals.shaderProgram) THEN BOOLEAN ELSE {FALSE}) :
         /\ gl' = LinkProgram(gl, locals.shaderProgram, ok)
         /\ hist' = [hist EXCEPT !.answer["shaderProgram"] = IF ok THEN "ok" ELSE "failed"]
    /\ pc' = 192
    /\ Stmt("glLinkProgram", <<"glLinkProgram">>)
    /\ UNCHANGED <<ret, out, locals, glfw, loaded>>

\* line 192: glGetProgramiv(shaderProgram, GL_LINK_STATUS, &success);
glGetProgramiv ==
    /\ pc = 192
    /\ IF locals.shaderProgram \in DOMAIN gl.programs
       THEN /\ locals' = [locals EXCEPT
                  !.success = IF gl.programs[locals.shaderProgram].status THEN 1 ELSE 0]
            /\ gl' = gl
       ELSE /\ locals' = locals
            /\ gl' = RaiseError(gl, "GL_INVALID_VALUE")
    /\ pc' = 193
    /\ Stmt("glGetProgramiv", <<"glGetProgramiv">>)
    /\ UNCHANGED <<ret, out, glfw, loaded, hist>>

CheckLinkStatus ==
    CheckSuccess(193, "glGetProgramInfoLog", "ERROR::SHADER::PROGRAM::LINKING_FAILED", 198)

\* line 198
UseProgramAfterLink ==
    /\ pc = 198
    /\ gl' = UseProgram(gl, locals.shaderProgram)
    /\ pc' = 201
    /\ Stmt("glUseProgram", <<"glUseProgram">>)
    /\ UNCHANGED <<ret, out, locals, glfw, loaded, hist>>

\* lines 201, 202: the variable keeps the (now stale) name.
glDeleteShader(line, var, next) ==
    /\ pc = line
    /\ gl' = DeleteShader(gl, locals[var])
    /\ hist' = [hist EXCEPT !.destroyed[var] = @ + 1]
    /\ pc' = next
    /\ Stmt("glDeleteShader", <<"glDeleteShader">>)
    /\ UNCHANGED <<ret, out, locals, glfw, loaded>>

DeleteVertexShader == glDeleteShader(201, "vertexShader", 202)
DeleteFragmentShader == glDeleteShader(202, "fragmentShader", 219)

Shaders ==
    \/ CreateVertexShader \/ VertexShaderSource \/ CompileVertexShader
    \/ GetVertexStatus \/ CheckVertexStatus
    \/ CreateFragmentShader \/ FragmentShaderSource \/ CompileFragmentShader
    \/ GetFragmentStatus \/ CheckFragmentStatus
    \/ glCreateProgram \/ AttachVertexShader \/ AttachFragmentShader
    \/ glLinkProgram \/ glGetProgramiv \/ CheckLinkStatus
    \/ UseProgramAfterLink \/ DeleteVertexShader \/ DeleteFragmentShader

\* ------------------------------------ OpenGL: buffers, vertex arrays, drawing

NoAttrib == [enabled |-> FALSE, buffer |-> 0, size |-> 0, stride |-> 0, offset |-> 0]

\* glGenBuffers(1, &name)
GenBuffer(g) ==
    [g EXCEPT !.buffers = @ @@ (NewName(DOMAIN @) :> [data |-> <<>>, usage |-> "none",
                                                      deleteFlag |-> FALSE])]

\* glBindBuffer(GL_ARRAY_BUFFER, n): in a core profile only 0 and generated names bind.
BindBuffer(g, n) ==
    IF n = 0 \/ n \in DOMAIN g.buffers
    THEN [g EXCEPT !.arrayBuffer = n]
    ELSE RaiseError(g, "GL_INVALID_OPERATION")

\* glBufferData(GL_ARRAY_BUFFER, sizeof data, data, usage): fills the bound buffer.
BufferData(g, data, usage) ==
    IF g.arrayBuffer = 0
    THEN RaiseError(g, "GL_INVALID_OPERATION")
    ELSE [g EXCEPT !.buffers[g.arrayBuffer].data = data,
                   !.buffers[g.arrayBuffer].usage = usage]

\* glGenVertexArrays(1, &name)
GenVertexArray(g) ==
    [g EXCEPT !.vaos = @ @@ (NewName(DOMAIN @) :> [attrib0 |-> NoAttrib])]

\* glBindVertexArray(n)
BindVertexArray(g, n) ==
    IF n = 0 \/ n \in DOMAIN g.vaos
    THEN [g EXCEPT !.vertexArray = n]
    ELSE RaiseError(g, "GL_INVALID_OPERATION")

\* glVertexAttribPointer(0, size, GL_FLOAT, GL_FALSE, stride, offset): the bound
\* vertex array records the layout and the buffer bound to GL_ARRAY_BUFFER now.
\* Core profile: an error without a bound vertex array, or with no buffer
\* bound and a non-null offset.
VertexAttribPointer(g, size, stride, offset) ==
    IF g.vertexArray = 0 \/ (g.arrayBuffer = 0 /\ offset # 0)
    THEN RaiseError(g, "GL_INVALID_OPERATION")
    ELSE [g EXCEPT !.vaos[g.vertexArray].attrib0 =
              [@ EXCEPT !.buffer = g.arrayBuffer, !.size = size,
                        !.stride = stride, !.offset = offset]]

\* glEnableVertexAttribArray(0)
EnableVertexAttribArray(g) ==
    IF g.vertexArray = 0
    THEN RaiseError(g, "GL_INVALID_OPERATION")
    ELSE [g EXCEPT !.vaos[g.vertexArray].attrib0.enabled = TRUE]

\* glViewport(x, y, w, h)
Viewport(g, x, y, w, h) ==
    IF w < 0 \/ h < 0
    THEN RaiseError(g, "GL_INVALID_VALUE")
    ELSE [g EXCEPT !.viewport = <<x, y, w, h>>]

\* The draw has a defined result: a usable program is current and attribute 0
\* of the bound vertex array reads count vertices from a live buffer.
DrawDefined(g, count) ==
    /\ g.currentProgram # 0
    /\ g.vertexArray # 0
    /\ LET a == g.vaos[g.vertexArray].attrib0
       IN  /\ a.enabled
           /\ a.buffer \in DOMAIN g.buffers
           /\ Len(g.buffers[a.buffer].data) >= count

\* glDrawArrays(GL_TRIANGLES, 0, count). Core profile: an error without a bound
\* vertex array or with an enabled attribute that has no buffer.
DrawArrays(g, count) ==
    IF g.vertexArray = 0 THEN RaiseError(g, "GL_INVALID_OPERATION")
    ELSE IF LET a == g.vaos[g.vertexArray].attrib0 IN a.enabled /\ a.buffer = 0
         THEN RaiseError(g, "GL_INVALID_OPERATION")
    ELSE [g EXCEPT !.colorBuffer = IF DrawDefined(g, count) THEN "triangle"
                                   ELSE "undefined"]

\* A buffer flagged for deletion lives on while a vertex array refers to it.
Referenced(g, b) == \E v \in DOMAIN g.vaos : g.vaos[v].attrib0.buffer = b

Sweep(g) ==
    [g EXCEPT !.buffers =
        [b \in {c \in DOMAIN @ : ~@[c].deleteFlag \/ Referenced(g, c)} |-> @[b]]]

\* glDeleteVertexArrays(1, &n): a bound vertex array is unbound first.
DeleteVertexArray(g, n) ==
    IF n = 0 THEN g
    ELSE IF n \notin DOMAIN g.vaos THEN g
    ELSE Sweep([g EXCEPT !.vaos = Remove(@, n),
                         !.vertexArray = IF @ = n THEN 0 ELSE @])

\* glDeleteBuffers(1, &n): the buffer is unbound from GL_ARRAY_BUFFER and
\* detached from the bound vertex array.
DeleteBuffer(g, n) ==
    IF n = 0 \/ n \notin DOMAIN g.buffers THEN g
    ELSE LET h == [g EXCEPT !.arrayBuffer = IF @ = n THEN 0 ELSE @,
                            !.buffers[n].deleteFlag = TRUE]
             k == IF h.vertexArray # 0 /\ h.vaos[h.vertexArray].attrib0.buffer = n
                  THEN [h EXCEPT !.vaos[h.vertexArray].attrib0.buffer = 0]
                  ELSE h
         IN  Sweep(k)

\* Destroying the context destroys every object in it.
ContextDestroyed(g) ==
    [g EXCEPT !.shaders = EmptyTable, !.programs = EmptyTable, !.buffers = EmptyTable,
              !.vaos = EmptyTable, !.currentProgram = 0, !.arrayBuffer = 0,
              !.vertexArray = 0]

\* ----------------------------------------------------------------- callbacks

\* Mutant of framebuffer_size_callback: width and height are swapped.
framebuffer_size_callback_Swapped(w, g, width, height) ==
    [glfw |-> w, gl |-> Viewport(g, 0, 0, height, width)]

\* lines 60-68: framebuffer_size_callback(window, width, height), applied to the
\* window library state w and the context state g.
framebuffer_size_callback(w, g, width, height) ==
    [glfw |-> w, gl |-> Viewport(g, 0, 0, width, height)]

\* Mutant of processInput: the escape key is read but the flag is not set.
processInput_Ignore(w) == w

\* lines 71-75: processInput(window)
processInput(w) ==
    IF w.escape = "PRESS" THEN [w EXCEPT !.shouldClose = TRUE] ELSE w

\* The library calls processInput makes on window state w.
processInputCalls(w) ==
    IF w.escape = "PRESS" THEN <<"glfwGetKey", "glfwSetWindowShouldClose">>
    ELSE <<"glfwGetKey">>

\* glfwPollEvents dispatching resize events e[1..Len(e)] in order.
RECURSIVE Dispatch(_, _, _)
Dispatch(w, g, e) ==
    IF e = <<>> \/ ~w.callback THEN [glfw |-> w, gl |-> g]
    ELSE LET r == framebuffer_size_callback(w, g, e[1][1], e[1][2])
         IN  Dispatch(r.glfw, r.gl, Tail(e))

\* ------------------------------------- main: vertex data, lines 208..239

\* lines 208-212, in tenths
vertices == << <<-5, -5, 0>>, <<5, -5, 0>>, <<0, 5, 0>> >>

\* line 219
glGenBuffers ==
    /\ pc = 219
    /\ gl' = GenBuffer(gl)
    /\ locals' = [locals EXCEPT !.VBO = NewName(DOMAIN gl.buffers)]
    /\ hist' = [hist EXCEPT !.created["VBO"] = @ + 1]
    /\ pc' = 220
    /\ Stmt("glGenBuffers", <<"glGenBuffers">>)
    /\ UNCHANGED <<ret, out, glfw, loaded>>

\* line 220
BindVBO ==
    /\ pc = 220
    /\ gl' = BindBuffer(gl, locals.VBO)
    /\ pc' = 221
    /\ Stmt("glBindBuffer", <<"glBindBuffer">>)
    /\ UNCHANGED <<ret, out, locals, glfw, loaded, hist>>

\* line 221
glBufferData ==
    /\ pc = 221
    /\ gl' = BufferData(gl, vertices, "GL_STATIC_DRAW")
    /\ pc' = 227
    /\ Stmt("glBufferData", <<"glBufferData">>)
    /\ UNCHANGED <<ret, out, locals, glfw, loaded, hist>>

\* line 227
glGenVertexArrays ==
    /\ pc = 227
    /\ gl' = GenVertexArray(gl)
    /\ locals' = [locals EXCEPT !.VAO = NewName(DOMAIN gl.vaos)]
    /\ hist' = [hist EXCEPT !.created["VAO"] = @ + 1]
    /\ pc' = 228
    /\ Stmt("glGenVertexArrays", <<"glGenVertexArrays">>)
    /\ UNCHANGED <<ret, out, glfw, loaded>>

\* line 228
BindVAO ==
    /\ pc = 228
    /\ gl' = BindVertexArray(gl, locals.VAO)
    /\ pc' = 234
    /\ Stmt("glBindVertexArray", <<"glBindVertexArray">>)
    /\ UNCHANGED <<ret, out, locals, glfw, loaded, hist>>

\* Mutant of glVertexAttribPointer: the vertex buffer is unbound before the
\* attribute is described instead of after.
glVertexAttribPointer_Unbound ==
    /\ pc = 234
    /\ gl' = VertexAttribPointer(BindBuffer(gl, 0), 3, 12, 0)
    /\ pc' = 235
    /\ Stmt("glVertexAttribPointer", <<"glVertexAttribPointer">>)
    /\ UNCHANGED <<ret, out, locals, glfw, loaded, hist>>

\* line 234: 3 floats per vertex, stride 3 * sizeof(float) = 12, offset 0
glVertexAttribPointer ==
    /\ pc = 234
    /\ gl' = VertexAttribPointer(gl, 3, 12, 0)
    /\ pc' = 235
    /\ Stmt("glVertexAttribPointer", <<"glVertexAttribPointer">>)
    /\ UNCHANGED <<ret, out, locals, glfw, loaded, hist>>

\* line 235
glEnableVertexAttribArray ==
    /\ pc = 235
    /\ gl' = EnableVertexAttribArray(gl)
    /\ pc' = 238
    /\ Stmt("glEnableVertexAttribArray", <<"glEnableVertexAttribArray">>)
    /\ UNCHANGED <<ret, out, locals, glfw, loaded, hist>>

\* line 238
UnbindVBO ==
    /\ pc = 238
    /\ gl' = BindBuffer(gl, 0)
    /\ pc' = 239
    /\ Stmt("glBindBuffer", <<"glBindBuffer">>)
    /\ UNCHANGED <<ret, out, locals, glfw, loaded, hist>>

\* line 239
UnbindVAO ==
    /\ pc = 239
    /\ gl' = BindVertexArray(gl, 0)
    /\ pc' = 242
    /\ Stmt("glBindVertexArray", <<"glBindVertexArray">>)
    /\ UNCHANGED <<ret, out, locals, glfw, loaded, hist>>

VertexData ==
    \/ glGenBuffers \/ BindVBO \/ glBufferData \/ glGenVertexArrays \/ BindVAO
    \/ glVertexAttribPointer \/ glEnableVertexAttribArray \/ UnbindVBO \/ UnbindVAO

\* ------------------------------------------ main: render loop, lines 242..267

\* line 242: while (!glfwWindowShouldClose(window))
LoopTest ==
    /\ pc = 242
    /\ IF glfw.shouldClose
       THEN /\ pc' = 271
            /\ hist' = hist
       ELSE /\ pc' = 246
            /\ hist' = [hist EXCEPT !.looped = TRUE]
    /\ trace' = <<>>
    /\ lastCall' = <<"glfwWindowShouldClose">>
    /\ UNCHANGED <<ret, out, locals, glfw, gl, loaded>>

\* line 246
CallProcessInput ==
    /\ pc = 246
    /\ glfw' = processInput(glfw)
    /\ pc' = 251
    /\ Stmt("processInput", processInputCalls(glfw))
    /\ UNCHANGED <<ret, out, locals, gl, loaded, hist>>

\* line 251: glClearColor(0.2f, 0.3f, 0.3f, 1.0f), in tenths
glClearColor ==
    /\ pc = 251
    /\ gl' = [gl EXCEPT !.clearColor = <<2, 3, 3, 10>>]
    /\ pc' = 252
    /\ Stmt("glClearColor", <<"glClearColor">>)
    /\ UNCHANGED <<ret, out, locals, glfw, loaded, hist>>

\* line 252: glClear(GL_COLOR_BUFFER_BIT)
glClear ==
    /\ pc = 252
    /\ gl' = [gl EXCEPT !.colorBuffer = "cleared"]
    /\ pc' = 257
    /\ Stmt("glClear", <<"glClear">>)
    /\ UNCHANGED <<ret, out, locals, glfw, loaded, hist>>

\* line 257
UseProgramInLoop ==
    /\ pc = 257
    /\ gl' = UseProgram(gl, locals.shaderProgram)
    /\ pc' = 258
    /\ Stmt("glUseProgram", <<"glUseProgram">>)
    /\ UNCHANGED <<ret, out, locals, glfw, loaded, hist>>

\* Mutant of BindVAOInLoop: the loop does not bind the vertex array.
BindVAOInLoop_Missing ==
    /\ pc = 258
    /\ pc' = 259
    /\ Stmt("glBindVertexArray", <<>>)
    /\ UNCHANGED <<ret, out, locals, glfw, gl, loaded, hist>>

\* line 258
BindVAOInLoop ==
    /\ pc = 258
    /\ gl' = BindVertexArray(gl, locals.VAO)
    /\ pc' = 259
    /\ Stmt("glBindVertexArray", <<"glBindVertexArray">>)
    /\ UNCHANGED <<ret, out, locals, glfw, loaded, hist>>

\* Mutant of glDrawArrays: the iteration skips glfwSwapBuffers after the draw.
glDrawArrays_SkipSwap ==
    /\ pc = 259
    /\ gl' = DrawArrays(gl, 3)
    /\ pc' = 265
    /\ Stmt("glDrawArrays", <<"glDrawArrays">>)
    /\ UNCHANGED <<ret, out, locals, glfw, loaded, hist>>

\* line 259: glDrawArrays(GL_TRIANGLES, 0, 3)
glDrawArrays ==
    /\ pc = 259
    /\ gl' = DrawArrays(gl, 3)
    /\ pc' = 264
    /\ Stmt("glDrawArrays", <<"glDrawArrays">>)
    /\ UNCHANGED <<ret, out, locals, glfw, loaded, hist>>

\* line 264: the back buffer is shown; its contents are undefined afterwards.
glfwSwapBuffers ==
    /\ pc = 264
    /\ gl' = [gl EXCEPT !.front = gl.colorBuffer, !.colorBuffer = "undefined"]
    /\ pc' = 265
    /\ Stmt("glfwSwapBuffers", <<"glfwSwapBuffers">>)
    /\ UNCHANGED <<ret, out, locals, glfw, loaded, hist>>

\* line 265: the events the user produced since the last poll are processed:
\* the escape key's state, a close request, and resize events, each of which
\* is handed to the registered framebuffer size callback.
glfwPollEvents ==
    /\ pc = 265
    /\ \E key \in {"PRESS", "RELEASE"}, close \in BOOLEAN,
          e \in SeqsUpTo(ResizeEvents, MaxEvents) :
         LET w == [glfw EXCEPT !.escape = key, !.shouldClose = @ \/ close]
             r == Dispatch(w, gl, e)
             n == IF glfw.callback THEN Len(e) ELSE 0
         IN  /\ glfw' = r.glfw
             /\ gl' = r.gl
             /\ hist' = [hist EXCEPT !.lastResize = IF n = 0 THEN @ ELSE e[n]]
             /\ Stmt("glfwPollEvents", <<"glfwPollEvents">> \o [i \in 1..n |-> "glViewport"])
    /\ pc' = 242
    /\ UNCHANGED <<ret, out, locals, loaded>>

RenderLoop ==
    \/ LoopTest \/ CallProcessInput \/ glClearColor \/ glClear \/ UseProgramInLoop
    \/ BindVAOInLoop \/ glDrawArrays \/ glfwSwapBuffers \/ glfwPollEvents

\* ---------------------------------------------- main: teardown, lines 271..279

\* line 271
glDeleteVertexArrays ==
    /\ pc = 271
    /\ gl' = DeleteVertexArray(gl, locals.VAO)
    /\ hist' = [hist EXCEPT !.destroyed["VAO"] = @ + 1]
    /\ pc' = 272
    /\ Stmt("glDeleteVertexArrays", <<"glDeleteVertexArrays">>)
    /\ UNCHANGED <<ret, out, locals, glfw, loaded>>

\* Mutant of glDeleteBuffers: the vertex array is deleted a second time instead.
glDeleteBuffers_VAOAgain ==
    /\ pc = 272
    /\ gl' = DeleteVertexArray(gl, locals.VAO)
    /\ hist' = [hist EXCEPT !.destroyed["VAO"] = @ + 1]
    /\ pc' = 273
    /\ Stmt("glDeleteVertexArrays", <<"glDeleteVertexArrays">>)
    /\ UNCHANGED <<ret, out, locals, glfw, loaded>>

\* line 272
glDeleteBuffers ==
    /\ pc = 272
    /\ gl' = DeleteBuffer(gl, locals.VBO)
    /\ hist' = [hist EXCEPT !.destroyed["VBO"] = @ + 1]
    /\ pc' = 273
    /\ Stmt("glDeleteBuffers", <<"glDeleteBuffers">>)
    /\ UNCHANGED <<ret, out, locals, glfw, loaded>>

\* line 273
glDeleteProgram ==
    /\ pc = 273
    /\ gl' = DeleteProgram(gl, locals.shaderProgram)
    /\ hist' = [hist EXCEPT !.destroyed["shaderProgram"] = @ + 1]
    /\ pc' = 278
    /\ Stmt("glDeleteProgram", <<"glDeleteProgram">>)
    /\ UNCHANGED <<ret, out, locals, glfw, loaded>>

\* line 278: the window and its context are destroyed with the library.
glfwTerminate ==
    /\ pc = 278
    /\ glfw' = Terminated(glfw)
    /\ gl' = ContextDestroyed(gl)
    /\ hist' = [hist EXCEPT !.destroyed["window"] = @ + (IF glfw.window THEN 1 ELSE 0)]
    /\ pc' = 279
    /\ Stmt("glfwTerminate", <<"glfwTerminate">>)
    /\ UNCHANGED <<ret, out, locals, loaded>>

\* line 279: return 0;
Return0 ==
    /\ pc = 279
    /\ pc' = 0
    /\ ret' = 0
    /\ UNCHANGED <<out, locals, glfw, gl, loaded, lastCall, trace, hist>>

Teardown ==
    \/ glDeleteVertexArrays \/ glDeleteBuffers \/ glDeleteProgram
    \/ glfwTerminate \/ Return0

Next == Startup \/ Shaders \/ VertexData \/ RenderLoop \/ Teardown

Spec == Init /\ [][Next]_vars

\* main is one thread: while it has not returned it keeps executing statements.
FairSpec == Spec /\ WF_vars(Next)

\* ------------------------------------------------------------------ properties

\* The last step issued library call c.
Issued(c) == \E i \in DOMAIN lastCall : lastCall[i] = c

\* main has executed the statement at `line` (pc only grows outside the loop).
Past(line) == pc > line \/ (pc = 0 /\ ret = 0)

StartupLines == {105, 111, 112, 113, 123, 126, 129, 132, 136, 140, 142}
LoopLines == {246, 251, 252, 257, 258, 259, 264, 265}
GLKinds == Kinds \ {"window"}

NoGLObjects ==
    /\ DOMAIN gl.shaders = {} /\ DOMAIN gl.programs = {}
    /\ DOMAIN gl.buffers = {} /\ DOMAIN gl.vaos = {}

\* C1: on either startup failure (no window, or the loader failed) main prints
\* the corresponding diagnostic and returns -1, having created no shader,
\* program, buffer or vertex array and having run no loop iteration; main
\* gets past startup only with a window and loaded function pointers.
C1_StartupFailure ==
    /\ (pc = 0 /\ ret = -1) =>
          /\ locals.window = 0 \/ ~loaded
          /\ out = IF locals.window = 0 THEN <<"Failed to create GLFW window">>
                   ELSE <<"Failed to initialize GLAD">>
          /\ NoGLObjects
          /\ \A k \in GLKinds : hist.created[k] = 0
          /\ ~hist.looped
    /\ (pc = 0 /\ (locals.window = 0 \/ ~loaded)) => ret = -1
    /\ pc \notin StartupLines \cup {0} => locals.window # 0 /\ loaded

C1_Witness ==
    /\ pc = 0 /\ ret = -1 /\ locals.window # 0 /\ ~loaded
    /\ out = <<"Failed to initialize GLAD">>

\* The diagnostics due so far, one per stage that failed and was checked.
ExpectedDiagnostics ==
    (IF Past(158) /\ hist.answer["vertexShader"] = "failed"
     THEN <<"ERROR::SHADER::VERTEX::COMPILATION_FAILED">> ELSE <<>>)
    \o (IF Past(174) /\ hist.answer["fragmentShader"] = "failed"
        THEN <<"ERROR::SHADER::FRAGMENT::COMPILATION_FAILED">> ELSE <<>>)
    \o (IF Past(193) /\ hist.answer["shaderProgram"] = "failed"
        THEN <<"ERROR::SHADER::PROGRAM::LINKING_FAILED">> ELSE <<>>)

\* The calls main makes from line 105 to line 239 when startup succeeds,
\* info-log queries left out.
SetupCalls ==
    <<"glfwInit", "glfwWindowHint", "glfwWindowHint", "glfwWindowHint", "glfwCreateWindow",
      "glfwMakeContextCurrent", "glfwSetFramebufferSizeCallback", "gladLoadGLLoader",
      "glCreateShader", "glShaderSource", "glCompileShader", "glGetShaderiv",
      "glCreateShader", "glShaderSource", "glCompileShader", "glGetShaderiv",
      "glCreateProgram", "glAttachShader", "glAttachShader", "glLinkProgram",
      "glGetProgramiv", "glUseProgram", "glDeleteShader", "glDeleteShader",
      "glGenBuffers", "glBindBuffer", "glBufferData", "glGenVertexArrays",
      "glBindVertexArray", "glVertexAttribPointer", "glEnableVertexAttribArray",
      "glBindBuffer", "glBindVertexArray">>

IsLogQuery(c) == c \in {"glGetShaderInfoLog", "glGetProgramInfoLog"}
NotLogQuery(c) == ~IsLogQuery(c)

\* C2: whatever the two compiles and the link answer, main is not aborted (it
\* reaches the loop having made every setup call, glLinkProgram and
\* glUseProgram included, and enters the loop), and what it printed is
\* exactly one diagnostic per failed stage, none for a stage that succeeded.
C2_Diagnostics ==
    /\ (loaded /\ (pc >= 150 \/ pc = 0)) => out = ExpectedDiagnostics
    /\ (pc = 242 /\ ~hist.looped) =>
          /\ SelectSeq(trace, NotLogQuery) = SetupCalls
          /\ Len(SelectSeq(trace, IsLogQuery)) = Len(out)
          /\ ~glfw.shouldClose
    /\ (pc = 0 /\ ret = 0) => hist.looped

C2_Witness ==
    /\ pc = 246
    /\ hist.answer = [vertexShader |-> "failed", fragmentShader |-> "ok",
                      shaderProgram |-> "failed"]
    /\ out = <<"ERROR::SHADER::VERTEX::COMPILATION_FAILED",
               "ERROR::SHADER::PROGRAM::LINKING_FAILED">>

FrameOrder ==
    <<"processInput", "glClearColor", "glClear", "glUseProgram", "glBindVertexArray",
      "glDrawArrays", "glfwSwapBuffers", "glfwPollEvents">>

\* The number of statements of the iteration executed when pc is at line l.
StepsBefore(l) ==
    CASE l = 246 -> 0 [] l = 251 -> 1 [] l = 252 -> 2 [] l = 257 -> 3 [] l = 258 -> 4
      [] l = 259 -> 5 [] l = 264 -> 6 [] l = 265 -> 7 [] l = 242 -> 8

\* C3: an iteration executes processInput, glClearColor, glClear, glUseProgram,
\* glBindVertexArray, glDrawArrays(3 vertices), glfwSwapBuffers, glfwPollEvents
\* in this order, each once, and the close flag is tested only between
\* iterations (with no statement of an iteration executed, or all of them).
C3_FrameOrder ==
    /\ (hist.looped /\ pc \in LoopLines \cup {242}) =>
          trace = SubSeq(FrameOrder, 1, StepsBefore(pc))
    /\ Issued("glfwWindowShouldClose") => trace = <<>> /\ pc \in {246, 271}
    /\ pc \in LoopLines => hist.looped

C3_Witness == pc = 242 /\ hist.looped /\ trace = FrameOrder

TeardownOrder == <<"glDeleteVertexArrays", "glDeleteBuffers", "glDeleteProgram", "glfwTerminate">>

TeardownSteps(l) == CASE l = 271 -> 0 [] l = 272 -> 1 [] l = 273 -> 2 [] l = 278 -> 3 [] l = 279 -> 4

\* C4: the loop is left only with the close flag set; main then deletes the
\* vertex array, the vertex buffer and the program once each, in this order,
\* then calls glfwTerminate, then returns 0; once the first of these
\* deletions is made no draw, bind or swap call is issued.
C4_Teardown ==
    /\ pc \in {271, 272, 273, 278, 279} =>
          /\ glfw.shouldClose
          /\ trace = SubSeq(TeardownOrder, 1, TeardownSteps(pc))
          /\ \A k \in {"VAO", "VBO", "shaderProgram"} :
                hist.destroyed[k] = IF Past(CASE k = "VAO" -> 271 [] k = "VBO" -> 272
                                              [] k = "shaderProgram" -> 273) THEN 1 ELSE 0
    /\ (pc = 0 /\ ret = 0) =>
          /\ trace = TeardownOrder
          /\ \A k \in {"VAO", "VBO", "shaderProgram"} : hist.destroyed[k] = 1
          /\ glfw.terminated /\ glfw.shouldClose
          /\ NoGLObjects
    /\ (\E k \in {"VAO", "VBO", "shaderProgram"} : hist.destroyed[k] > 0) =>
          \A c \in {"glDrawArrays", "glBindVertexArray", "glBindBuffer", "glUseProgram",
                    "glfwSwapBuffers"} : ~Issued(c)
    /\ pc \in LoopLines \cup {242} =>
          \A k \in {"VAO", "VBO", "shaderProgram"} : hist.destroyed[k] = 0

C4_Witness == pc = 0 /\ ret = 0 /\ trace = TeardownOrder /\ glfw.terminated

\* C5: every handle is created at most once, all six exist exactly once and
\* unmodified while frames are rendered, and on every path on which main
\* returns each handle that was created has been destroyed exactly once.
C5_Lifecycle ==
    /\ \A k \in Kinds : hist.created[k] <= 1 /\ hist.destroyed[k] <= hist.created[k]
    /\ pc \in LoopLines \cup {242} =>
          /\ \A k \in Kinds : hist.created[k] = 1
          /\ \A k \in {"VAO", "VBO", "shaderProgram", "window"} : hist.destroyed[k] = 0
          /\ glfw.window
          /\ locals.shaderProgram \in DOMAIN gl.programs
          /\ locals.VBO \in DOMAIN gl.buffers /\ gl.buffers[locals.VBO].data = vertices
          /\ locals.VAO \in DOMAIN gl.vaos
    /\ pc = 0 => \A k \in Kinds : hist.destroyed[k] = hist.created[k]

\* The three ordering invariants that do not concern the draw call: both
\* compiles precede every attach and the link, the link precedes every
\* glUseProgram, and glBufferData finds the vertex buffer bound.
OrderBeforeDraw ==
    /\ (Issued("glAttachShader") \/ Issued("glLinkProgram")) =>
          /\ hist.answer["vertexShader"] # "none"
          /\ hist.answer["fragmentShader"] # "none"
    /\ (\E p \in DOMAIN gl.programs : gl.programs[p].attached # {} \/ gl.programs[p].linked) =>
          \A s \in {locals.vertexShader, locals.fragmentShader} :
              s \in DOMAIN gl.shaders /\ gl.shaders[s].compiled
    /\ Issued("glUseProgram") =>
          /\ hist.answer["shaderProgram"] # "none"
          /\ gl.programs[locals.shaderProgram].linked
    /\ Issued("glBufferData") =>
          /\ locals.VBO # 0 /\ gl.arrayBuffer = locals.VBO
          /\ gl.buffers[locals.VBO].data = vertices

\* C6 as claimed: the ordering invariants hold and every glDrawArrays is
\* issued while the shader program is current and the vertex array is bound.
C6_Original ==
    /\ OrderBeforeDraw
    /\ Issued("glDrawArrays") =>
          /\ locals.shaderProgram # 0 /\ gl.currentProgram = locals.shaderProgram
          /\ locals.VAO # 0 /\ gl.vertexArray = locals.VAO

\* C6 amended: the ordering invariants hold and every glDrawArrays is issued
\* while the vertex array is bound and after glUseProgram(shaderProgram); the
\* shader program is current at the draw exactly when the link succeeded
\* (after a failed link glUseProgram is rejected and no program is current).
C6_Ordering ==
    /\ OrderBeforeDraw
    /\ Issued("glDrawArrays") =>
          /\ locals.VAO # 0 /\ gl.vertexArray = locals.VAO
          /\ trace[4] = "glUseProgram"
          /\ gl.currentProgram = IF hist.answer["shaderProgram"] = "ok"
                                 THEN locals.shaderProgram ELSE 0
          /\ hist.answer["shaderProgram"] = "failed" => gl.error = "GL_INVALID_OPERATION"

C6_Witness ==
    /\ Issued("glDrawArrays")
    /\ hist.answer["shaderProgram"] = "ok"
    /\ gl.currentProgram = locals.shaderProgram /\ gl.vertexArray = locals.VAO
    /\ gl.colorBuffer = "triangle"

\* C7: processInput sets the close flag when it sees the escape key pressed
\* and leaves it unchanged otherwise; the flag is never cleared; the iteration
\* in which it was set runs to its end and no further one starts; and main
\* then finishes teardown and returns 0.
C7_EscapeCloses ==
    /\ [][(pc = 246 /\ glfw.escape = "PRESS") => glfw'.shouldClose]_vars
    /\ [][(pc = 246 /\ glfw.escape # "PRESS") => glfw'.shouldClose = glfw.shouldClose]_vars
    /\ [][glfw.shouldClose => glfw'.shouldClose]_vars
    /\ [][(pc \in LoopLines /\ glfw.shouldClose) =>
             (pc' \in LoopLines \cup {242} /\ trace' = SubSeq(FrameOrder, 1, StepsBefore(pc')))]_vars
    /\ [][(pc = 242 /\ glfw.shouldClose) => pc' = 271]_vars
    /\ (Issued("glfwSetWindowShouldClose") ~> (pc = 0 /\ ret = 0))

C7_Witness ==
    /\ pc = 251 /\ glfw.shouldClose
    /\ lastCall = <<"glfwGetKey", "glfwSetWindowShouldClose">>

\* C8: a resize event (width, height) makes the viewport (0, 0, width, height)
\* and changes nothing else in the window or the context; after any sequence
\* of resize events the viewport is that of the most recent one.
C8_Resize ==
    /\ hist.lastResize # <<>> =>
          gl.viewport = <<0, 0, hist.lastResize[1], hist.lastResize[2]>>
    /\ hist.lastResize = <<>> => gl.viewport \in {<<0, 0, 0, 0>>, <<0, 0, 800, 600>>}
    /\ \A e \in ResizeEvents :
          LET r == framebuffer_size_callback(glfw, gl, e[1], e[2])
          IN  /\ r.glfw = glfw
              /\ r.gl = [gl EXCEPT !.viewport = <<0, 0, e[1], e[2]>>]
    /\ (Issued("glfwPollEvents") /\ locals.VAO \in DOMAIN gl.vaos) =>
          /\ gl.vertexArray = locals.VAO /\ gl.arrayBuffer = 0
          /\ gl.currentProgram \in {0, locals.shaderProgram}
          /\ gl.error = IF hist.answer["shaderProgram"] = "ok" THEN "GL_NO_ERROR"
                        ELSE "GL_INVALID_OPERATION"

C8_Witness ==
    /\ lastCall = <<"glfwPollEvents", "glViewport", "glViewport">>
    /\ hist.lastResize = <<1, 2>>
    /\ gl.viewport = <<0, 0, 1, 2>>

\* C9: whenever a GL call is issued (glViewport from the resize callback
\* included) the function pointers are loaded and the window's context is
\* current; the callback is registered before the loader runs, and callbacks
\* run only inside glfwPollEvents.
C9_LoadedBeforeGL ==
    /\ \A i \in DOMAIN lastCall : IsGLCall(lastCall[i]) => loaded /\ glfw.current
    /\ Issued("glViewport") => lastCall[1] = "glfwPollEvents" /\ hist.looped
    /\ pc = 140 => glfw.callback /\ ~loaded
    /\ ~loaded => NoGLObjects /\ hist.lastResize = <<>>

C9_Witness == Issued("glViewport") /\ loaded /\ glfw.current /\ glfw.callback

\* C10: glVertexAttribPointer and glEnableVertexAttribArray are issued with
\* the vertex array and the vertex buffer both bound (the buffer was bound
\* first), so the vertex array records the vertex buffer for attribute 0; at
\* every glDrawArrays the bound vertex array has attribute 0 enabled and read
\* from the live vertex buffer holding the 3 vertices, while GL_ARRAY_BUFFER
\* is bound to 0.
C10_AttribSource ==
    /\ pc = 228 => locals.VBO # 0 /\ gl.arrayBuffer = locals.VBO /\ gl.vertexArray = 0
    /\ (Issued("glVertexAttribPointer") \/ Issued("glEnableVertexAttribArray")) =>
          /\ locals.VAO # 0 /\ gl.vertexArray = locals.VAO
          /\ locals.VBO # 0 /\ gl.arrayBuffer = locals.VBO
    /\ Issued("glDrawArrays") =>
          /\ gl.arrayBuffer = 0
          /\ gl.vertexArray = locals.VAO /\ locals.VAO \in DOMAIN gl.vaos
          /\ gl.vaos[locals.VAO].attrib0 =
                [enabled |-> TRUE, buffer |-> locals.VBO, size |-> 3, stride |-> 12,
                 offset |-> 0]
          /\ locals.VBO \in DOMAIN gl.buffers
          /\ ~gl.buffers[locals.VBO].deleteFlag
          /\ gl.buffers[locals.VBO].data = vertices /\ Len(vertices) = 3

C10_Witness ==
    /\ Issued("glDrawArrays") /\ gl.arrayBuffer = 0
    /\ gl.vaos[gl.vertexArray].attrib0.enabled
    /\ gl.vaos[gl.vertexArray].attrib0.buffer = locals.VBO
    /\ Len(gl.buffers[locals.VBO].data) = 3
====
